---- MODULE Spec2Model ----
(***************************************************************************)
(* Model of src/src/hitthefest/cli.py: the popularity classifier           *)
(* (get_percentile_thresholds, songs_count), the name normalizer           *)
(* (normalize) and the allocation pass select_tracks_by_percentile_logic.  *)
(*                                                                         *)
(* Conventions.                                                            *)
(*  - A string of the program is a sequence of code points; a code point   *)
(*    is written as a TLA+ string ("a", "A+acute", "+acute", ...).         *)
(*  - Python's None is the empty set and a present value x is {x}, so an   *)
(*    optional value can be compared with = whatever its type.             *)
(*  - The percentile cut points are rationals with denominator 100; the    *)
(*    model keeps them multiplied by 100 (exact arithmetic).               *)
(***************************************************************************)
EXTENDS Integers, Sequences, FiniteSets, TLC

VARIABLES
    pc,                 \* position in select_tracks_by_percentile_logic
    artists,            \* the input list
    artist_popularity,  \* dict name -> optional score
    thresholds,         \* <<p20, p40, p60, p80>>, each times 100
    to_extract,         \* dict name -> quota tier
    seen_tracks,        \* set of claimed track ids
    all_tracks,         \* the final list
    artist_to_count,    \* dict name -> number of tracks assigned
    rejected_tracks,    \* rejection trail of the artist being processed
    idx,                \* 1-based index of the artist being processed
    top_tracks,         \* candidate list of the artist being processed
    pos,                \* 1-based index of the candidate being processed
    assigned_to,        \* history: for all_tracks[k], the artist and authors at acceptance
    sp_popularity,      \* the catalog: name -> optional score (None: not found)
    sp_top_tracks,      \* the catalog: name -> optional candidate list
    sp_track            \* the catalog: track id -> optional credited-artist list

vars == <<pc, artists, artist_popularity, thresholds, to_extract, seen_tracks,
          all_tracks, artist_to_count, rejected_tracks, idx, top_tracks, pos,
          assigned_to, sp_popularity, sp_top_tracks, sp_track>>

----------------------------------------------------------------------------
\* Optional values.
None == {}
Some(x) == {x}
Val(o) == CHOOSE x \in o : TRUE

Range(s) == {s[i] : i \in DOMAIN s}

\* All sequences over S of length at most n.
SeqUpTo(S, n) == UNION {[1..k -> S] : k \in 0..n}

----------------------------------------------------------------------------
\* NameNormalizer.

\* unicodedata.normalize('NFD', c) of one code point: a precomposed letter
\* becomes its base letter followed by the combining mark.
NFD(c) ==
    IF c = "A+acute" THEN <<"A", "+acute">>
    ELSE IF c = "a+acute" THEN <<"a", "+acute">>
    ELSE <<c>>

\* unicodedata.category(c)
category(c) ==
    IF c = "+acute" THEN "Mn"
    ELSE IF c \in {"A", "B"} THEN "Lu"
    ELSE "Ll"

\* str.lower() of one code point.
lower(c) ==
    IF c = "A" THEN "a"
    ELSE IF c = "B" THEN "b"
    ELSE c

RECURSIVE Decompose(_)
Decompose(text) ==
    IF text = <<>> THEN <<>>
    ELSE NFD(Head(text)) \o Decompose(Tail(text))

RECURSIVE StripMarks(_)
StripMarks(text) ==
    IF text = <<>> THEN <<>>
    ELSE IF category(Head(text)) # "Mn"
         THEN <<Head(text)>> \o StripMarks(Tail(text))
         ELSE StripMarks(Tail(text))

normalize(text) ==
    LET kept == StripMarks(Decompose(text))
    IN  [i \in DOMAIN kept |-> lower(kept[i])]

----------------------------------------------------------------------------
\* PopularityClassifier.

\* sorted(values), by insertion.
RECURSIVE Insert(_, _)
Insert(x, s) ==
    IF s = <<>> THEN <<x>>
    ELSE IF x <= Head(s) THEN <<x>> \o s
    ELSE <<Head(s)>> \o Insert(x, Tail(s))

RECURSIVE Sorted(_)
Sorted(s) ==
    IF s = <<>> THEN <<>>
    ELSE Insert(Head(s), Sorted(Tail(s)))

\* 100 * np.percentile(values, q) for a non-empty list, linear interpolation:
\* the value at the fractional index q/100*(n-1) of the sorted values.
Percentile100(values, q) ==
    LET n    == Len(values)
        v    == Sorted(values)
        at   == q * (n - 1)
        lo   == at \div 100
        frac == at % 100
        hi   == IF lo + 1 < n THEN lo + 1 ELSE lo
    IN  100 * v[lo + 1] + frac * (v[hi + 1] - v[lo + 1])

get_percentile_thresholds(popularities) ==
    << Percentile100(popularities, 20), Percentile100(popularities, 40),
       Percentile100(popularities, 60), Percentile100(popularities, 80) >>

\* Variant of songs_count: a score equal to a cut point stays in the lower tier.
songs_count_inclusive(p, p20, p40, p60, p80) ==
    LET v == IF p = None THEN 0 ELSE Val(p)
    IN  IF 100 * v <= p20 THEN 1
        ELSE IF 100 * v <= p40 THEN 2
        ELSE IF 100 * v <= p60 THEN 3
        ELSE IF 100 * v <= p80 THEN 4
        ELSE 5

\* The thresholds are given times 100, so the score is scaled the same way.
songs_count(p, p20, p40, p60, p80) ==
    LET v == IF p = None THEN 0 ELSE Val(p)
    IN  IF 100 * v < p20 THEN 1
        ELSE IF 100 * v < p40 THEN 2
        ELSE IF 100 * v < p60 THEN 3
        ELSE IF 100 * v < p80 THEN 4
        ELSE 5

----------------------------------------------------------------------------
\* TrackAllocator: the dictionaries built before the loops.

\* The last (1-based) position of an input name with canonical form n.
LastIndex(arts, n) ==
    CHOOSE i \in DOMAIN arts :
        /\ normalize(arts[i]) = n
        /\ \A j \in DOMAIN arts : normalize(arts[j]) = n => j <= i

\* {normalize(name): i for i, name in enumerate(artists)}: a later entry
\* with the same canonical form overwrites an earlier one.
artist_preference(arts) ==
    [n \in {normalize(arts[i]) : i \in DOMAIN arts} |-> LastIndex(arts, n)]

\* {normalize(name): name for name in artists}
artist_name_map(arts) ==
    [n \in {normalize(arts[i]) : i \in DOMAIN arts} |-> arts[LastIndex(arts, n)]]

\* [popularity or 0 for a in artists], one entry per position of the list.
popularity_values(arts, popularity) ==
    [i \in DOMAIN arts |->
        IF popularity[arts[i]] # None THEN Val(popularity[arts[i]]) ELSE 0]

\* {a: songs_count(artist_popularity[a], p20, p40, p60, p80) for a in artists}
quota_dict(arts, popularity, th) ==
    [a \in Range(arts) |-> songs_count(popularity[a], th[1], th[2], th[3], th[4])]

\* Variant of owner_of: the last matching credited name instead of the first.
RECURSIVE OwnerLastCredited(_, _, _)
OwnerLastCredited(authors, preference, name_map) ==
    IF authors = <<>> THEN None
    ELSE IF normalize(authors[Len(authors)]) \in DOMAIN preference
         THEN Some(name_map[normalize(authors[Len(authors)])])
         ELSE OwnerLastCredited(SubSeq(authors, 1, Len(authors) - 1), preference, name_map)

\* Variant of owner_of: among the matching credited names, the one whose
\* artist comes first in the input list (artist_preference as a ranking).
OwnerByPreference(authors, preference, name_map) ==
    LET matching == {i \in DOMAIN authors : normalize(authors[i]) \in DOMAIN preference}
    IN  IF matching = {} THEN None
        ELSE Some(name_map[normalize(authors[
                CHOOSE i \in matching :
                    \A j \in matching :
                        preference[normalize(authors[i])]
                            <= preference[normalize(authors[j])]])])

\* The first credited name whose canonical form is a key of
\* artist_preference, mapped through artist_name_map; None when there is none.
RECURSIVE owner_of(_, _, _)
owner_of(authors, preference, name_map) ==
    IF authors = <<>> THEN None
    ELSE IF normalize(Head(authors)) \in DOMAIN preference
         THEN Some(name_map[normalize(Head(authors))])
         ELSE owner_of(Tail(authors), preference, name_map)

----------------------------------------------------------------------------
\* One iteration of the inner loop, as a function of the loop state
\* L = [seen_tracks, all_tracks, artist_to_count, rejected_tracks, assigned_to].
\* The result adds reason (None when the track is accepted) and brk (the
\* loop is left).

\* Variant of AlreadySeen: the seen_tracks test is dropped.
AlreadySeenNever(L, track_id) == FALSE

AlreadySeen(L, track_id) == track_id \in L.seen_tracks

\* Variant of NotOwner: the ownership test is dropped (first come, first served).
NotOwnerNever(owner, artist) == FALSE

NotOwner(owner, artist) == owner # Some(artist)

\* Variant of UnderQuota: off by one.
UnderQuotaOffByOne(L, artist, quota) == L.artist_to_count[artist] <= quota[artist]

UnderQuota(L, artist, quota) == L.artist_to_count[artist] < quota[artist]

\* Variants of QuotaFilled: the loop is left one candidate late, or never.
QuotaFilledStrict(count, limit) == count > limit

QuotaFilledNever(count, limit) == FALSE

QuotaFilled(count, limit) == count >= limit

Rejection(track_id, reason, authors, owner) ==
    [track_id |-> track_id, reason |-> reason, authors |-> authors, owner |-> owner]

IterTrack(L, artist, track_id, authors, preference, name_map, quota) ==
    LET owner == owner_of(authors, preference, name_map)
    IN
    IF AlreadySeen(L, track_id) THEN
        [L EXCEPT !.rejected_tracks = Append(@,
            Rejection(track_id, "already assigned to previous artist", None, None))]
        @@ [reason |-> Some("already assigned to previous artist"), brk |-> FALSE]
    ELSE IF NotOwner(owner, artist) THEN
        [L EXCEPT !.rejected_tracks = Append(@,
            Rejection(track_id, "owner is", Some(authors), owner))]
        @@ [reason |-> Some("owner is"), brk |-> FALSE]
    ELSE IF UnderQuota(L, artist, quota) THEN
        [L EXCEPT !.all_tracks = Append(@, track_id),
                  !.seen_tracks = @ \cup {track_id},
                  !.artist_to_count[artist] = @ + 1,
                  !.assigned_to = Append(@, [artist |-> artist, authors |-> authors])]
        @@ [reason |-> None,
            brk |-> QuotaFilled(L.artist_to_count[artist] + 1, quota[artist])]
    ELSE
        [L EXCEPT !.rejected_tracks = Append(@,
            Rejection(track_id, "limit reached for artist", Some(authors), owner))]
        @@ [reason |-> Some("limit reached for artist"),
            brk |-> QuotaFilled(L.artist_to_count[artist], quota[artist])]

----------------------------------------------------------------------------
\* Bounds of the explored inputs.
MaxArtists == 2
NumTracks == 2
MaxTopTracks == 2
MaxAuthors == 2

NameA == <<"a">>
NameAacute == <<"A+acute">>
NameB == <<"b">>
Names == {NameA, NameAacute, NameB}
Scores == {None, Some(50)}
Tracks == 1..NumTracks
TopTrackLists == SeqUpTo(Tracks, MaxTopTracks)
AuthorLists == SeqUpTo(Names, MaxAuthors)

EmptyDict == <<>>

LoopState ==
    [seen_tracks |-> seen_tracks, all_tracks |-> all_tracks,
     artist_to_count |-> artist_to_count, rejected_tracks |-> rejected_tracks,
     assigned_to |-> assigned_to]

\* The state at the call of select_tracks_by_percentile_logic(sp, arts).
AtCall(arts) ==
    /\ pc = "start"
    /\ artists = arts
    /\ artist_popularity = EmptyDict
    /\ thresholds = <<>>
    /\ to_extract = EmptyDict
    /\ seen_tracks = {}
    /\ all_tracks = <<>>
    /\ artist_to_count = EmptyDict
    /\ rejected_tracks = <<>>
    /\ idx = 0
    /\ top_tracks = <<>>
    /\ pos = 0
    /\ assigned_to = <<>>

\* Any artist list up to the bound; the catalog answers a popularity query
\* with any score or with "not found"; its track data is not yet looked at.
InitAny ==
    /\ \E arts \in SeqUpTo(Names, MaxArtists) :
        /\ AtCall(arts)
        /\ sp_popularity \in [Range(arts) -> Scores]
    /\ sp_top_tracks = [n \in Names |-> None]
    /\ sp_track = [t \in Tracks |-> None]

\* The same name twice, with more tracks of its own than its quota.
InitRepeated ==
    /\ AtCall(<<NameA, NameA>>)
    /\ sp_popularity = [n \in {NameA} |-> Some(50)]
    /\ sp_top_tracks = [n \in Names |-> IF n = NameA THEN Some(<<1, 2, 3, 4, 5, 6>>) ELSE None]
    /\ sp_track = [t \in 1..6 |-> Some(<<NameA>>)]

\* Two artists with quotas 1 and 5 that share their first track.
InitShared ==
    /\ AtCall(<<NameA, NameB>>)
    /\ sp_popularity = [n \in {NameA, NameB} |-> IF n = NameA THEN Some(10) ELSE Some(90)]
    /\ sp_top_tracks = [n \in Names |->
            IF n = NameA THEN Some(<<1>>)
            ELSE IF n = NameB THEN Some(<<1, 2, 3, 4, 5, 6>>)
            ELSE None]
    /\ sp_track = [t \in 1..6 |-> IF t = 1 THEN Some(<<NameA, NameB>>) ELSE Some(<<NameB>>)]

Init == InitAny \/ InitRepeated \/ InitShared

\* Lines 164-179 for a non-empty list: fetch_artist_popularity, the
\* thresholds, the quotas and the empty accumulators.
ComputeQuotas ==
    /\ pc = "start"
    /\ artists # <<>>
    /\ artist_popularity' = [a \in Range(artists) |-> sp_popularity[a]]
    /\ thresholds' = get_percentile_thresholds(popularity_values(artists, artist_popularity'))
    /\ to_extract' = quota_dict(artists, artist_popularity', thresholds')
    /\ seen_tracks' = {}
    /\ all_tracks' = <<>>
    /\ artist_to_count' = [a \in Range(artists) |-> 0]
    /\ idx' = 1
    /\ pc' = "fetch"
    /\ UNCHANGED <<artists, rejected_tracks, top_tracks, pos, assigned_to,
                   sp_popularity, sp_top_tracks, sp_track>>

\* Lines 164-179 for the empty list, with a numpy whose np.percentile
\* returns NaN for an empty array: no comparison is ever made with it.
ComputeQuotasEmptyNaN ==
    /\ pc = "start"
    /\ artists = <<>>
    /\ artist_popularity' = EmptyDict
    /\ thresholds' = <<"nan", "nan", "nan", "nan">>
    /\ to_extract' = EmptyDict
    /\ seen_tracks' = {}
    /\ all_tracks' = <<>>
    /\ artist_to_count' = EmptyDict
    /\ idx' = 1
    /\ pc' = "fetch"
    /\ UNCHANGED <<artists, rejected_tracks, top_tracks, pos, assigned_to,
                   sp_popularity, sp_top_tracks, sp_track>>

\* Lines 164-172 for the empty list, with a numpy whose np.percentile
\* raises IndexError for an empty array (as the releases since 1.22 do): the
\* exception leaves the function.
ComputeQuotasEmptyRaises ==
    /\ pc = "start"
    /\ artists = <<>>
    /\ artist_popularity' = EmptyDict
    /\ pc' = "IndexError"
    /\ UNCHANGED <<artists, thresholds, to_extract, seen_tracks, all_tracks,
                   artist_to_count, rejected_tracks, idx, top_tracks, pos,
                   assigned_to, sp_popularity, sp_top_tracks, sp_track>>

\* Lines 181-183: the next artist's candidate list, as the catalog gives it
\* (the same list when the same name is asked again).
FetchTopTracks ==
    /\ pc = "fetch"
    /\ idx <= Len(artists)
    /\ \E tt \in (IF sp_top_tracks[artists[idx]] = None
                  THEN TopTrackLists ELSE sp_top_tracks[artists[idx]]) :
        /\ top_tracks' = tt
        /\ sp_top_tracks' = [sp_top_tracks EXCEPT ![artists[idx]] = Some(tt)]
        /\ pc' = IF tt = <<>> THEN "end_artist" ELSE "track"
    /\ rejected_tracks' = <<>>
    /\ pos' = IF top_tracks' = <<>> THEN 0 ELSE 1
    /\ UNCHANGED <<artists, artist_popularity, thresholds, to_extract, seen_tracks,
                   all_tracks, artist_to_count, idx, assigned_to, sp_popularity, sp_track>>

\* The loop state after one iteration of lines 184-211 that ended as r, and
\* where the inner loop goes next.
AfterIter(r) ==
    /\ seen_tracks' = r.seen_tracks
    /\ all_tracks' = r.all_tracks
    /\ artist_to_count' = r.artist_to_count
    /\ rejected_tracks' = r.rejected_tracks
    /\ assigned_to' = r.assigned_to
    /\ IF r.brk \/ pos = Len(top_tracks)
       THEN pc' = "end_artist" /\ pos' = pos
       ELSE pc' = "track" /\ pos' = pos + 1
    /\ UNCHANGED <<artists, artist_popularity, thresholds, to_extract, idx,
                   top_tracks, sp_popularity, sp_top_tracks>>

\* Lines 186-189: the candidate is already in seen_tracks; sp.track is not called.
RejectAlreadyAssigned ==
    /\ pc = "track"
    /\ AlreadySeen(LoopState, top_tracks[pos])
    /\ AfterIter(IterTrack(LoopState, artists[idx], top_tracks[pos], <<>>,
                           artist_preference(artists), artist_name_map(artists),
                           to_extract))
    /\ UNCHANGED sp_track

\* Lines 190-211 with the outcome `reason`: sp.track gives the credited
\* artists (the same list when the same track is asked again).
Examine(reason) ==
    /\ ~AlreadySeen(LoopState, top_tracks[pos])
    /\ \E authors \in (IF sp_track[top_tracks[pos]] = None
                       THEN AuthorLists ELSE sp_track[top_tracks[pos]]) :
        LET r == IterTrack(LoopState, artists[idx], top_tracks[pos], authors,
                           artist_preference(artists), artist_name_map(artists),
                           to_extract)
        IN  /\ r.reason = reason
            /\ sp_track' = [sp_track EXCEPT ![top_tracks[pos]] = Some(authors)]
            /\ AfterIter(r)

RejectNotOwner ==
    /\ pc = "track"
    /\ Examine(Some("owner is"))

AcceptTrack ==
    /\ pc = "track"
    /\ Examine(None)

RejectLimitReached ==
    /\ pc = "track"
    /\ Examine(Some("limit reached for artist"))

\* Lines 212-219: the end of the outer loop's body.
EndArtist ==
    /\ pc = "end_artist"
    /\ idx' = idx + 1
    /\ pc' = "fetch"
    /\ UNCHANGED <<artists, artist_popularity, thresholds, to_extract, seen_tracks,
                   all_tracks, artist_to_count, rejected_tracks, top_tracks, pos,
                   assigned_to, sp_popularity, sp_top_tracks, sp_track>>

\* Line 232: the outer loop is over.
Return ==
    /\ pc = "fetch"
    /\ idx > Len(artists)
    /\ pc' = "done"
    /\ UNCHANGED <<artists, artist_popularity, thresholds, to_extract, seen_tracks,
                   all_tracks, artist_to_count, rejected_tracks, idx, top_tracks, pos,
                   assigned_to, sp_popularity, sp_top_tracks, sp_track>>

Next ==
    \/ ComputeQuotas
    \/ ComputeQuotasEmptyNaN
    \/ ComputeQuotasEmptyRaises
    \/ FetchTopTracks
    \/ RejectAlreadyAssigned
    \/ RejectNotOwner
    \/ AcceptTrack
    \/ RejectLimitReached
    \/ EndArtist
    \/ Return

Spec == Init /\ [][Next]_vars

----------------------------------------------------------------------------
\* Properties of the allocation pass, checked in every reachable state.

Started == pc \in {"fetch", "track", "end_artist", "done"}
InArtist == pc \in {"track", "end_artist"}

\* C1: after any prefix of the allocation pass the final track list holds no
\* track identifier twice.
C1_NoDuplicateTracks ==
    \A i, j \in DOMAIN all_tracks : i # j => all_tracks[i] # all_tracks[j]

\* A candidate met again (in the same list or in a later artist's list) was
\* turned away while the final list holds two tracks.
C1_Witness ==
    /\ Len(all_tracks) >= 2
    /\ \E k \in DOMAIN rejected_tracks :
        /\ rejected_tracks[k].reason = "already assigned to previous artist"
        /\ rejected_tracks[k].track_id \in Range(all_tracks)

\* C2: at every point of the pass each input artist's count is at most its
\* quota tier, and the tier is between 1 and 5, repeated names included.
C2_QuotaInvariant ==
    Started =>
        \A i \in DOMAIN artists :
            /\ to_extract[artists[i]] \in 1..5
            /\ artist_to_count[artists[i]] <= to_extract[artists[i]]

\* A name that occurs twice has filled its quota and one more track of its
\* own was met afterwards.
C2_Witness ==
    /\ Len(artists) = 2
    /\ artists[1] = artists[2]
    /\ idx = 2
    /\ InArtist
    /\ artist_to_count[artists[1]] = to_extract[artists[1]]
    /\ \E k \in DOMAIN rejected_tracks :
        rejected_tracks[k].reason = "limit reached for artist"

\* The positions of the credited names whose canonical form is the canonical
\* form of some input artist.
MatchPositions(authors) ==
    {i \in DOMAIN authors :
        \E j \in DOMAIN artists : normalize(authors[i]) = normalize(artists[j])}

FirstMatch(authors) ==
    authors[CHOOSE i \in MatchPositions(authors) :
                \A j \in MatchPositions(authors) : i <= j]

\* C3: every track of the final list was accepted for an artist whose
\* canonical name is that of the first credited name matching an input
\* artist; a track with no matching credited name is never in the list.
C3_Ownership ==
    \A k \in DOMAIN all_tracks :
        LET authors == Val(sp_track[all_tracks[k]])
        IN  /\ assigned_to[k].authors = authors
            /\ MatchPositions(authors) # {}
            /\ normalize(FirstMatch(authors)) = normalize(assigned_to[k].artist)

\* A track was accepted whose first credited name matches no input artist
\* and whose second one does, and a track with no matching name was rejected.
C3_Witness ==
    /\ \E k \in DOMAIN all_tracks :
        LET authors == assigned_to[k].authors
        IN  Len(authors) = 2 /\ 1 \notin MatchPositions(authors)
    /\ \E k \in DOMAIN rejected_tracks :
        /\ rejected_tracks[k].reason = "owner is"
        /\ rejected_tracks[k].owner = None

\* C6: with an empty artist list the quota computation and the pass end
\* without an error, with empty quotas, an empty list and empty counts.
C6_EmptyListReturnsEmpty ==
    (artists = <<>> /\ pc # "start") =>
        /\ pc \in {"fetch", "done"}
        /\ to_extract = EmptyDict
        /\ all_tracks = <<>>
        /\ artist_to_count = EmptyDict

\* C7: while an artist is processed, an examined candidate is in the
\* rejection trail with reason "owner is ..." exactly when its owner is none
\* or the owner's canonical name differs from the artist's.
C7_OwnerRejectionByCanonicalName ==
    InArtist =>
        \A k \in DOMAIN rejected_tracks :
            LET r == rejected_tracks[k]
            IN  r.authors # None =>
                    ( r.reason = "owner is"
                      <=> ( r.owner = None
                            \/ normalize(Val(r.owner)) # normalize(artists[idx]) ) )

NoRepeatedName ==
    \A i, j \in DOMAIN artists : i # j => artists[i] # artists[j]

\* C10: when no name occurs twice, the artist being processed is below its
\* quota at the start of every candidate iteration and "limit reached for
\* artist" is never recorded.
C10_NoLimitReachedWithoutRepeat ==
    NoRepeatedName =>
        /\ pc = "track" => artist_to_count[artists[idx]] < to_extract[artists[idx]]
        /\ \A k \in DOMAIN rejected_tracks :
            rejected_tracks[k].reason # "limit reached for artist"

\* Without a repeated name, an artist filled its quota and left the loop
\* with candidates still unvisited.
C10_Witness ==
    /\ NoRepeatedName
    /\ pc = "end_artist"
    /\ pos < Len(top_tracks)
    /\ artist_to_count[artists[idx]] = to_extract[artists[idx]]

----------------------------------------------------------------------------
\* The whole pass as a function of the artist list and the catalog.

\* Lines 184-211: the inner loop from candidate k on.
RECURSIVE RunTracks(_, _, _, _, _, _, _, _)
RunTracks(L, artist, tt, k, preference, name_map, quota, track_info) ==
    IF k > Len(tt) THEN L
    ELSE LET authors == IF AlreadySeen(L, tt[k]) THEN <<>> ELSE Val(track_info[tt[k]])
             r == IterTrack(L, artist, tt[k], authors, preference, name_map, quota)
             L2 == [f \in DOMAIN L |-> r[f]]
         IN  IF r.brk THEN L2
             ELSE RunTracks(L2, artist, tt, k + 1, preference, name_map, quota, track_info)

\* Lines 181-219: the outer loop from artist i on.
RECURSIVE RunArtists(_, _, _, _, _, _, _, _)
RunArtists(L, i, arts, preference, name_map, quota, top, track_info) ==
    IF i > Len(arts) THEN L
    ELSE RunArtists(
            RunTracks([L EXCEPT !.rejected_tracks = <<>>], arts[i],
                      Val(top[arts[i]]), 1, preference, name_map, quota, track_info),
            i + 1, arts, preference, name_map, quota, top, track_info)

\* Lines 164-232 for a non-empty list.
select_tracks_by_percentile_logic(arts, popularity, top, track_info) ==
    LET pop == [a \in Range(arts) |-> popularity[a]]
        th == get_percentile_thresholds(popularity_values(arts, pop))
        quota == quota_dict(arts, pop, th)
        L0 == [seen_tracks |-> {}, all_tracks |-> <<>>,
               artist_to_count |-> [a \in Range(arts) |-> 0],
               rejected_tracks |-> <<>>, assigned_to |-> <<>>]
    IN  RunArtists(L0, 1, arts, artist_preference(arts), artist_name_map(arts),
                   quota, top, track_info)
        @@ [artist_popularity |-> pop, thresholds |-> th, to_extract |-> quota]

\* Any non-empty artist list up to the bound and any catalog over the
\* bounded tracks and names, fixed before the call.
InitCatalog ==
    \E arts \in SeqUpTo(Names, MaxArtists) \ {<<>>} :
        /\ AtCall(arts)
        /\ sp_popularity \in [Range(arts) -> Scores]
        /\ \E lists \in [Range(arts) -> TopTrackLists] :
            sp_top_tracks = [n \in Names |-> IF n \in Range(arts) THEN Some(lists[n]) ELSE None]
        /\ \E credits \in [Tracks -> AuthorLists] :
            sp_track = [t \in Tracks |-> Some(credits[t])]

\* One call of select_tracks_by_percentile_logic, from entry to return.
Allocate ==
    /\ pc = "start"
    /\ artists # <<>>
    /\ \E R \in {select_tracks_by_percentile_logic(artists, sp_popularity,
                                                    sp_top_tracks, sp_track)} :
           /\ artist_popularity' = R.artist_popularity
           /\ thresholds' = R.thresholds
           /\ to_extract' = R.to_extract
           /\ seen_tracks' = R.seen_tracks
           /\ all_tracks' = R.all_tracks
           /\ artist_to_count' = R.artist_to_count
           /\ rejected_tracks' = R.rejected_tracks
           /\ assigned_to' = R.assigned_to
    /\ idx' = Len(artists) + 1
    /\ pc' = "done"
    /\ UNCHANGED <<artists, top_tracks, pos, sp_popularity, sp_top_tracks, sp_track>>

SpecCatalog == InitCatalog /\ [][Allocate]_vars

----------------------------------------------------------------------------
\* The quota computation alone, over more artists and scores.
MaxQuotaArtists == 4

QuotaNames == {<<"a">>, <<"b">>, <<"c">>, <<"d">>}
QuotaScores == {None, Some(0), Some(1), Some(3)}

DecileArtists ==
    << <<"a">>, <<"b">>, <<"c">>, <<"d">>, <<"e">>,
       <<"f">>, <<"g">>, <<"h">>, <<"i">>, <<"j">> >>
DecilePopularity ==
    [n \in Range(DecileArtists) |->
        Some(10 * (CHOOSE i \in DOMAIN DecileArtists : DecileArtists[i] = n))]

InitQuota ==
    /\ \E arts \in SeqUpTo(QuotaNames, MaxQuotaArtists) \cup {DecileArtists} :
        /\ AtCall(arts)
        /\ IF arts = DecileArtists
           THEN sp_popularity = DecilePopularity
           ELSE sp_popularity \in [Range(arts) -> QuotaScores]
        /\ sp_top_tracks = [n \in Range(arts) |-> None]
    /\ sp_track = <<>>

NextQuota ==
    \/ ComputeQuotas
    \/ ComputeQuotasEmptyNaN
    \/ ComputeQuotasEmptyRaises

SpecQuota == InitQuota /\ [][NextQuota]_vars

\* The score of each position of the list, an absent score counting as 0.
ScoreAt(arts, popularity, i) ==
    IF popularity[arts[i]] = None THEN 0 ELSE Val(popularity[arts[i]])

\* The k-th smallest (k from 0) of the n scores, by counting.
OrderStat(arts, popularity, k) ==
    CHOOSE v \in {ScoreAt(arts, popularity, i) : i \in DOMAIN arts} :
        /\ Cardinality({i \in DOMAIN arts : ScoreAt(arts, popularity, i) < v}) <= k
        /\ k < Cardinality({i \in DOMAIN arts : ScoreAt(arts, popularity, i) <= v})

\* 100 times the value at the fractional index q/100*(n-1) of the sorted
\* scores, interpolated linearly between its two neighbours.
CutPoint100(arts, popularity, q) ==
    LET at == q * (Len(arts) - 1)
        lo == at \div 100
        frac == at % 100
    IN  (100 - frac) * OrderStat(arts, popularity, lo)
        + frac * OrderStat(arts, popularity, IF frac = 0 THEN lo ELSE lo + 1)

TierByCutPoints(arts, popularity, i) ==
    1 + Cardinality({q \in {20, 40, 60, 80} :
            CutPoint100(arts, popularity, q) <= 100 * ScoreAt(arts, popularity, i)})

\* C4: the quota tier is 1 + the number of cut points p20, p40, p60, p80
\* that are <= the score (absent = 0), the cut points being the linearly
\* interpolated percentiles of all the input scores; the scores 10,...,100
\* get the tiers 1,1,2,2,3,3,4,4,5,5.
C4_TierCountsCutPoints ==
    /\ (Started /\ artists # <<>>) =>
        /\ thresholds = << CutPoint100(artists, sp_popularity, 20),
                           CutPoint100(artists, sp_popularity, 40),
                           CutPoint100(artists, sp_popularity, 60),
                           CutPoint100(artists, sp_popularity, 80) >>
        /\ \A i \in DOMAIN artists :
            to_extract[artists[i]] = TierByCutPoints(artists, sp_popularity, i)
    /\ LET th == get_percentile_thresholds(
                    popularity_values(DecileArtists, DecilePopularity))
           q == quota_dict(DecileArtists, DecilePopularity, th)
       IN  /\ th = <<2800, 4600, 6400, 8200>>
           /\ [i \in DOMAIN DecileArtists |-> q[DecileArtists[i]]]
                = <<1, 1, 2, 2, 3, 3, 4, 4, 5, 5>>

\* An artist without a score and an artist whose score equals a cut point
\* (p40) below the largest have their tiers: the second one above tier 2.
C4_Witness ==
    /\ Started
    /\ \E i, j \in DOMAIN artists :
        /\ sp_popularity[artists[i]] = None
        /\ to_extract[artists[i]] = 1
        /\ sp_popularity[artists[j]] # None
        /\ 100 * Val(sp_popularity[artists[j]]) = thresholds[2]
        /\ thresholds[2] > thresholds[1]
        /\ thresholds[4] > thresholds[2]
        /\ to_extract[artists[j]] \in {3, 4}

----------------------------------------------------------------------------
\* Properties of the result, per artist.

NoCanonicalCollision ==
    \A i, j \in DOMAIN artists :
        i # j => normalize(artists[i]) # normalize(artists[j])

\* The tracks of the list `tracks` accepted for artist A, in order.
RECURSIVE AssignedSeq(_, _, _)
AssignedSeq(tracks, owners, A) ==
    IF tracks = <<>> THEN <<>>
    ELSE IF Head(owners).artist = A
         THEN <<Head(tracks)>> \o AssignedSeq(Tail(tracks), Tail(owners), A)
         ELSE AssignedSeq(Tail(tracks), Tail(owners), A)

\* The catalog credits track t first (among the input artists) to A.
OwnedBy(t, A) ==
    /\ sp_track[t] # None
    /\ MatchPositions(Val(sp_track[t])) # {}
    /\ normalize(FirstMatch(Val(sp_track[t]))) = normalize(A)

\* The first q distinct tracks of `list` owned by A, in ranking order.
RECURSIVE FirstOwned(_, _, _, _)
FirstOwned(list, acc, A, q) ==
    IF list = <<>> \/ Len(acc) = q THEN acc
    ELSE IF OwnedBy(Head(list), A) /\ Head(list) \notin Range(acc)
         THEN FirstOwned(Tail(list), Append(acc, Head(list)), A, q)
         ELSE FirstOwned(Tail(list), acc, A, q)

FirstPosition(list, t) ==
    CHOOSE k \in DOMAIN list : list[k] = t /\ \A m \in 1..(k - 1) : list[m] # t

FinishedArtist(i) ==
    Started /\ (idx > i \/ (idx = i /\ pc = "end_artist"))

SharedExample ==
    /\ artists = <<NameA, NameB>>
    /\ sp_popularity = [n \in {NameA, NameB} |-> IF n = NameA THEN Some(10) ELSE Some(90)]
    /\ sp_top_tracks[NameA] = Some(<<1>>)
    /\ sp_top_tracks[NameB] = Some(<<1, 2, 3, 4, 5, 6>>)
    /\ sp_track = [t \in 1..6 |-> IF t = 1 THEN Some(<<NameA, NameB>>) ELSE Some(<<NameB>>)]

\* C8: with pairwise distinct canonical names, the tracks assigned to an
\* artist once it has been processed are the first q distinct tracks of its
\* candidate list that it owns (q its quota tier), and the scan of its list
\* ends at the candidate that filled the quota; in the example with quotas 1
\* and 5 the result is t1 for A and t2..t6 for B.
C8_FirstOwnedUpToQuota ==
    /\ NoCanonicalCollision =>
        \A i \in DOMAIN artists :
            FinishedArtist(i) =>
                LET A == artists[i]
                    mine == AssignedSeq(all_tracks, assigned_to, A)
                IN  /\ mine = FirstOwned(Val(sp_top_tracks[A]), <<>>, A, to_extract[A])
                    /\ (idx = i /\ Len(mine) = to_extract[A]) =>
                            pos = FirstPosition(top_tracks, mine[Len(mine)])
    /\ (SharedExample /\ pc = "done") =>
        /\ to_extract = [n \in {NameA, NameB} |-> IF n = NameA THEN 1 ELSE 5]
        /\ AssignedSeq(all_tracks, assigned_to, NameA) = <<1>>
        /\ AssignedSeq(all_tracks, assigned_to, NameB) = <<2, 3, 4, 5, 6>>
        /\ Len(all_tracks) = 6

\* The example has run to its end.
C8_Witness ==
    /\ SharedExample
    /\ pc = "done"
    /\ all_tracks = <<1, 2, 3, 4, 5, 6>>

----------------------------------------------------------------------------
\* Properties relating two calls on the same catalog.

Reorderings(arts) ==
    {[i \in DOMAIN arts |-> arts[p[i]]] :
        p \in {f \in [DOMAIN arts -> DOMAIN arts] :
                \A i, j \in DOMAIN arts : i # j => f[i] # f[j]}}

Reversed(arts) == [i \in DOMAIN arts |-> arts[Len(arts) + 1 - i]]

\* The result of the call on another artist list, same catalog.
ResultOn(arts) ==
    select_tracks_by_percentile_logic(arts, sp_popularity, sp_top_tracks, sp_track)

ThisResult ==
    [all_tracks |-> all_tracks, assigned_to |-> assigned_to,
     artist_to_count |-> artist_to_count, to_extract |-> to_extract]

AssignedSet(R, A) == Range(AssignedSeq(R.all_tracks, R.assigned_to, A))

\* The artist track t was accepted for in result R, None when it is not in
\* the final list.
OwnerIn(R, t) ==
    IF \E k \in DOMAIN R.all_tracks : R.all_tracks[k] = t
    THEN Some(R.assigned_to[CHOOSE k \in DOMAIN R.all_tracks : R.all_tracks[k] = t].artist)
    ELSE None

\* Track t is in both candidate lists and credited to both artists.
SharedTrack(t) ==
    /\ t \in Range(Val(sp_top_tracks[artists[1]]))
    /\ t \in Range(Val(sp_top_tracks[artists[2]]))
    /\ {artists[1], artists[2]} \subseteq Range(Val(sp_track[t]))

\* C5 as stated, in its most favourable case (the shared track is the first
\* candidate of both artists, so no quota is in the way): the shared track
\* goes to the artist that comes first in the input order, and to the other
\* artist when the order is reversed.
C5_FirstInInputOrderWins ==
    (pc = "done" /\ Len(artists) = 2 /\ NoCanonicalCollision) =>
        \A t \in Tracks :
            ( /\ SharedTrack(t)
              /\ Val(sp_top_tracks[artists[1]])[1] = t
              /\ Val(sp_top_tracks[artists[2]])[1] = t )
            => /\ OwnerIn(ThisResult, t) = Some(artists[1])
               /\ OwnerIn(ResultOn(Reversed(artists)), t) = Some(artists[2])

\* C5 amended: for two artists with distinct canonical names, a shared track
\* credited to both has the same owner in both input orders; when it is in
\* the final list its owner is the artist credited first on the track, and
\* it is in the final list when it is that artist's first candidate.
C5_FirstCreditedWins ==
    (pc = "done" /\ Len(artists) = 2 /\ NoCanonicalCollision) =>
        \A t \in Tracks :
            SharedTrack(t) =>
                LET o == OwnerIn(ThisResult, t)
                    first == FirstMatch(Val(sp_track[t]))
                IN  /\ o = OwnerIn(ResultOn(Reversed(artists)), t)
                    /\ o # None => normalize(Val(o)) = normalize(first)
                    /\ Val(sp_top_tracks[first])[1] = t => o = Some(first)

\* A shared track credited first to the second input artist was given to
\* that artist, although the first input artist met it first.
C5_Witness ==
    /\ pc = "done"
    /\ Len(artists) = 2
    /\ NoCanonicalCollision
    /\ \E t \in Tracks :
        /\ SharedTrack(t)
        /\ Val(sp_track[t]) = <<artists[2], artists[1]>>
        /\ Val(sp_top_tracks[artists[1]])[1] = t
        /\ OwnerIn(ThisResult, t) = Some(artists[2])

\* C9: with pairwise distinct canonical names and a fixed catalog, the
\* quota tiers, the per-artist counts, the set of tracks assigned to each
\* artist and the final track set are the same for every permutation of the
\* input list.
C9_PermutationInvariant ==
    (pc = "done" /\ NoCanonicalCollision) =>
        \A perm \in Reorderings(artists) :
            LET R == ResultOn(perm)
            IN  /\ R.to_extract = to_extract
                /\ R.artist_to_count = artist_to_count
                /\ Range(R.all_tracks) = Range(all_tracks)
                /\ \A A \in Range(artists) :
                    AssignedSet(R, A) = AssignedSet(ThisResult, A)

\* Two artists both got tracks, one of them a track that is in both lists,
\* and the reversed input gives the final list in another order.
C9_Witness ==
    /\ pc = "done"
    /\ NoCanonicalCollision
    /\ Len(artists) = 2
    /\ artist_to_count[artists[1]] > 0
    /\ artist_to_count[artists[2]] > 0
    /\ \E t \in Range(all_tracks) :
        /\ t \in Range(Val(sp_top_tracks[artists[1]]))
        /\ t \in Range(Val(sp_top_tracks[artists[2]]))
    /\ ResultOn(Reversed(artists)).all_tracks # all_tracks

====
